---- MODULE Spec2Model ----
(***************************************************************************)
(* Model of src/app.py: the /submit handler (submit_overtime), the         *)
(* /get_totals handler (get_totals) and the worksheet they share           *)
(* (get_spreadsheet).  Text is modelled as sequences of one-character      *)
(* strings so that formatting and parsing are computed, not assumed.       *)
(***************************************************************************)
EXTENDS Integers, Sequences, FiniteSets, TLC

VARIABLES
    wsExists,   \* the worksheet named SHEET_NAME exists in the spreadsheet
    sheet,      \* the worksheet's rows, in order (each row a tuple of cells)
    resp,       \* the response of the last handler call
    ledger,     \* history: <<agent, minutes>> of every submit that answered success
    storeFault, \* history: some store call has raised or failed so far
    spc, sdata, srow, sresp,   \* racing /submit request: position, body, row, response
    qpc, qagent, qresp,        \* racing /get_totals request: position, agent, response
    qrecords,   \* racing /get_totals request: the records it read
    sheet0,     \* the rows when the racing requests started
    n, text, parsed, phase     \* format/parse round trip of one minute count

vars == <<wsExists, sheet, resp, ledger, storeFault, spc, sdata, srow, sresp,
          qpc, qagent, qresp, qrecords, sheet0, n, text, parsed, phase>>

storeVars == <<wsExists, sheet, resp, ledger, storeFault>>
raceVars == <<spc, sdata, srow, sresp, qpc, qagent, qresp, qrecords, sheet0>>
fmtVars == <<n, text, parsed, phase>>

----------------------------------------------------------------------------
(* Bounds of the model *)

\* most data rows the worksheet holds before /submit stops being offered
MaxRows == 2
\* most data rows of a worksheet somebody else filled in (aggregation runs)
MaxStored == 3
\* largest minute count formatted and parsed back
MaxMinutes == 150

----------------------------------------------------------------------------
(* Text *)

DigitChars == <<"0", "1", "2", "3", "4", "5", "6", "7", "8", "9">>

\* str(int) / f"{v}"
RECURSIVE Str(_)
Str(v) ==
    IF v < 0 THEN <<"-">> \o Str(-v)
    ELSE IF v < 10 THEN <<DigitChars[v + 1]>>
    ELSE Str(v \div 10) \o <<DigitChars[(v % 10) + 1]>>

\* mutant of Format02d: the width is forgotten
Format02dUnpadded(v) == Str(v)

\* f"{v:02d}": at least two characters, padded with zeros on the left
Format02d(v) ==
    IF Len(Str(v)) >= 2 THEN Str(v) ELSE <<"0">> \o Str(v)

\* f"{int(hour):02d}:{int(minute):02d}"
FormatClock(hour, minute) == Format02d(hour) \o <<":">> \o Format02d(minute)

\* f"{hours}h {minutes}m"
FormatTotal(hours, minutes) == Str(hours) \o <<"h", " ">> \o Str(minutes) \o <<"m">>

\* mutant of FormatDuration: the minutes are not reduced modulo 60
FormatDurationNoRemainder(total_minutes) ==
    FormatTotal(total_minutes \div 60, total_minutes)

\* hours = total_minutes // 60; minutes = total_minutes % 60; total_time = ...
FormatDuration(total_minutes) ==
    FormatTotal(total_minutes \div 60, total_minutes % 60)

\* str.replace(c, '')
Replace(s, c) == SelectSeq(s, LAMBDA x : x # c)

Whitespace == {" "}

\* str.split(): the maximal runs of non-whitespace characters, in order
RECURSIVE Split(_)
Split(s) ==
    IF s = <<>> THEN <<>>
    ELSE IF Head(s) \in Whitespace THEN Split(Tail(s))
    ELSE LET stop == IF \E i \in 1..Len(s) : s[i] \in Whitespace
                     THEN (CHOOSE i \in 1..Len(s) :
                              /\ s[i] \in Whitespace
                              /\ \A j \in 1..(i - 1) : s[j] \notin Whitespace)
                     ELSE Len(s) + 1
         IN  <<SubSeq(s, 1, stop - 1)>> \o Split(SubSeq(s, stop, Len(s)))

IsDigit(c) == \E i \in 1..10 : DigitChars[i] = c
DigitValue(c) == (CHOOSE i \in 1..10 : DigitChars[i] = c) - 1

RECURSIVE DigitsValue(_)
DigitsValue(s) ==
    IF s = <<>> THEN 0
    ELSE DigitsValue(SubSeq(s, 1, Len(s) - 1)) * 10 + DigitValue(s[Len(s)])

\* int(token) raises ValueError unless the token is an optional sign and digits
IntOk(tok) ==
    LET body == IF tok # <<>> /\ Head(tok) \in {"-", "+"} THEN Tail(tok) ELSE tok
    IN  body # <<>> /\ \A i \in 1..Len(body) : IsDigit(body[i])

IntValue(tok) ==
    IF Head(tok) = "-" THEN 0 - DigitsValue(Tail(tok))
    ELSE IF Head(tok) = "+" THEN DigitsValue(Tail(tok))
    ELSE DigitsValue(tok)

\* parts = time_str.replace('h', '').replace('m', '').split()
Parts(time_str) == Split(Replace(Replace(time_str, "h"), "m"))

\* mutant of ParseDuration: the minutes token is dropped
ParseDurationHoursOnly(time_str) ==
    LET parts == Parts(time_str)
    IN  IF Len(parts) >= 1
        THEN IF IntOk(parts[1])
             THEN [raised |-> FALSE, minutes |-> IntValue(parts[1]) * 60]
             ELSE [raised |-> TRUE, minutes |-> 0]
        ELSE [raised |-> FALSE, minutes |-> 0]

\* one pass of the loop body: the minutes a stored duration adds to the total,
\* or a raised ValueError
ParseDuration(time_str) ==
    LET parts == Parts(time_str)
    IN  IF Len(parts) >= 2
        THEN IF IntOk(parts[1]) /\ IntOk(parts[2])
             THEN [raised |-> FALSE, minutes |-> IntValue(parts[1]) * 60 + IntValue(parts[2])]
             ELSE [raised |-> TRUE, minutes |-> 0]
        ELSE IF Len(parts) = 1
        THEN IF IntOk(parts[1])
             THEN [raised |-> FALSE, minutes |-> IntValue(parts[1]) * 60]
             ELSE [raised |-> TRUE, minutes |-> 0]
        ELSE [raised |-> FALSE, minutes |-> 0]


----------------------------------------------------------------------------
(* The worksheet *)

\* SHEET_NAME's header row
HEADERS == <<
    <<"A", "g", "e", "n", "t", " ", "N", "a", "m", "e">>,
    <<"D", "a", "t", "e">>,
    <<"F", "r", "o", "m">>,
    <<"T", "o">>,
    <<"R", "e", "a", "s", "o", "n">>,
    <<"2", "0", "k", " ", "B", "o", "n", "u", "s">>,
    <<"H", "o", "l", "i", "d", "a", "y", "?">>,
    <<"O", "v", "e", "r", "n", "i", "g", "h", "t", "?">>,
    <<"T", "o", "t", "a", "l", " ", "T", "i", "m", "e">> >>

KeyAgentName == HEADERS[1]
KeyDate == HEADERS[2]
KeyFrom == HEADERS[3]
KeyTo == HEADERS[4]
KeyReason == HEADERS[5]
KeyBonus == HEADERS[6]
KeyHoliday == HEADERS[7]
KeyOvernight == HEADERS[8]
KeyTotalTime == HEADERS[9]

Yes == <<"Y", "e", "s">>
No == <<"N", "o">>
\* data.get('reason', 'Scheduled OT')
DefaultReason == <<"S", "c", "h", "e", "d", "u", "l", "e", "d", " ", "O", "T">>
\* record.get('Total Time', '0h 0m')
DefaultTotalTime == <<"0", "h", " ", "0", "m">>
\* Python's None: no text, and equal to no text
None == <<"None">>
\* the '' that record.get(key, '') falls back to
Empty == <<>>

\* The store calls a handler makes, in order: authorising the client, opening
\* the worksheet, add_worksheet, append_row(headers), append_row(row),
\* get_all_records.  At most one of them fails in a call, since the first
\* failure ends the handler.
StoreCalls == {"client", "open", "add", "headers", "append", "read"}
Failures == StoreCalls \cup {"none"}
\* the store calls on the path of each handler
SubmitFailures == Failures \ {"read"}
QueryFailures == Failures \ {"append"}

\* get_spreadsheet(): what it returns ("sheet", "none" for None, "raise" for an
\* exception that leaves it) and the worksheet it leaves behind.  A store call
\* that fails changes nothing.
get_spreadsheet(exists, rows, fail) ==
    IF fail = "client"
    THEN [ret |-> "none", exists |-> exists, rows |-> rows, fault |-> TRUE]
    ELSE IF fail = "open"
    THEN [ret |-> "none", exists |-> exists, rows |-> rows, fault |-> TRUE]
    ELSE IF exists
    THEN [ret |-> "sheet", exists |-> exists, rows |-> rows, fault |-> FALSE]
    ELSE IF fail = "add"
    THEN [ret |-> "raise", exists |-> FALSE, rows |-> rows, fault |-> TRUE]
    ELSE IF fail = "headers"
    THEN [ret |-> "raise", exists |-> TRUE, rows |-> <<>>, fault |-> TRUE]
    ELSE [ret |-> "sheet", exists |-> TRUE, rows |-> <<HEADERS>>, fault |-> FALSE]

\* mutant of append_row: the row is inserted at the top (insert_row(row, 1))
insert_row_first(rows, row) == <<row>> \o rows

\* worksheet.append_row(row)
append_row(rows, row) == Append(rows, row)

HasDuplicates(row) == \E i, j \in 1..Len(row) : i # j /\ row[i] = row[j]

\* worksheet.get_all_records(): the first row gives the keys, every later row
\* is a mapping from those keys to its cells (a key that repeats keeps the
\* last cell under it)
get_all_records(rows) ==
    IF rows = <<>> THEN <<>>
    ELSE LET keys == rows[1]
             last(k) == CHOOSE i \in 1..Len(keys) :
                            keys[i] = k /\ \A j \in (i + 1)..Len(keys) : keys[j] # k
         IN  [r \in 1..(Len(rows) - 1) |->
                 [k \in {keys[i] : i \in 1..Len(keys)} |-> rows[r + 1][last(k)]]]

\* dict.get(key, default)
Get(record, key, default) == IF key \in DOMAIN record THEN record[key] ELSE default


----------------------------------------------------------------------------
(* Requests *)

Ana == <<"A", "n", "a">>
AnaLower == <<"a", "n", "a">>
Carlos == <<"C", "a", "r", "l", "o", "s">>
Agents == {Ana, AnaLower, Carlos}
Day == <<"2", "0", "2", "4", "-", "0", "1", "-", "1", "0">>

\* the keys /submit insists on
Required == {"agent", "date", "from_hour", "from_minute", "to_hour", "to_minute"}

\* clock readings <<hour, minute>> a request carries
Clock == {<<9, 0>>, <<18, 30>>, <<21, 0>>}

\* A /submit body: the keys it holds and their values.  numeric = FALSE stands
\* for a body whose hour or minute fields int() rejects (None, "x", ...).
Entry(keys, agent, from, to, overnight, numeric) ==
    [keys |-> keys, agent |-> agent, date |-> Day,
     from_hour |-> from[1], from_minute |-> from[2],
     to_hour |-> to[1], to_minute |-> to[2],
     overnight |-> overnight, numeric |-> numeric]

\* the overnight flag comes with requests that start in the evening
CompleteEntries ==
    {Entry(Required, a, f, t, o, TRUE) :
        a \in {Ana, Carlos}, f \in Clock, t \in Clock, o \in BOOLEAN}
    \ {Entry(Required, a, <<9, 0>>, t, TRUE, TRUE) : a \in {Ana, Carlos}, t \in Clock}

IncompleteEntries ==
    {Entry(Required \ {k}, Ana, <<18, 30>>, <<21, 0>>, FALSE, nu) :
        k \in Required, nu \in BOOLEAN}
    \cup {Entry({}, Ana, <<18, 30>>, <<21, 0>>, FALSE, TRUE)}

NonNumericEntries ==
    {Entry(Required, Ana, <<18, 30>>, t, FALSE, FALSE) : t \in {<<9, 0>>, <<21, 0>>}}

SubmitInputs == CompleteEntries \cup IncompleteEntries \cup NonNumericEntries

\* agent = data.get('agent'): None when the body has no such key
QueryAgents == Agents \cup {None}

----------------------------------------------------------------------------
(* Responses.  opens counts the calls of get_spreadsheet and appends the calls
   of sheet.append_row(row) the handler made on the way to the response. *)

NoResponse ==
    [op |-> "none", success |-> FALSE, status |-> 0, message |-> "",
     agent |-> Empty, total_time |-> Empty,
     total_hours |-> 0, total_minutes |-> 0, rows |-> <<>>,
     opens |-> 0, appends |-> 0]

\* jsonify({'success': False, 'message': message}), status
Failure(op, status, message, opens, appends) ==
    [NoResponse EXCEPT !.op = op, !.status = status, !.message = message,
                       !.opens = opens, !.appends = appends]

\* an exception on its way out of the handler's try block
Raised(op, opens, appends) == Failure(op, 0, "raised", opens, appends)

\* jsonify({'success': True, 'message': f'Registro guardado: {agent} - {total_time}'})
Saved(agent, total_time, opens, appends) ==
    [NoResponse EXCEPT !.op = "submit", !.success = TRUE, !.status = 200,
                       !.message = "Registro guardado",
                       !.agent = agent, !.total_time = total_time,
                       !.opens = opens, !.appends = appends]

\* jsonify({'success': True, 'total_hours': ..., 'total_minutes': ..., 'rows': rows})
Totals(total_hours, total_mins, rows) ==
    [NoResponse EXCEPT !.op = "get_totals", !.success = TRUE, !.status = 200,
                       !.total_hours = total_hours, !.total_minutes = total_mins,
                       !.rows = rows, !.opens = 1]

----------------------------------------------------------------------------
(* /submit *)

\* the row submit_overtime prepares
MakeRow(data, total_minutes) ==
    << data.agent,
       data.date,
       FormatClock(data.from_hour, data.from_minute),
       FormatClock(data.to_hour, data.to_minute),
       DefaultReason,
       No,
       No,
       IF data.overnight THEN Yes ELSE No,
       FormatDuration(total_minutes) >>

\* mutant of RequiredPresent: the minute keys are not asked for
RequiredPresentHours(data) ==
    {"agent", "date", "from_hour", "to_hour"} \subseteq data.keys

\* the validation of submit_overtime: which required keys must be present
RequiredPresent(data) == Required \subseteq data.keys

\* mutant of RangeRejected: an empty range is let through
RangeRejectedBelowZero(total_minutes) == total_minutes < 0

\* the range check of submit_overtime
RangeRejected(total_minutes) == total_minutes <= 0

\* submit_overtime up to the row it prepares: the response that ends the
\* request early, or the row
Validate(data) ==
    IF ~RequiredPresent(data)
    THEN [done |-> TRUE, resp |-> Failure("submit", 400, "Datos incompletos", 0, 0),
          row |-> <<>>]
    ELSE IF ~data.numeric
    THEN [done |-> TRUE, resp |-> Raised("submit", 0, 0), row |-> <<>>]
    ELSE
    LET from_minutes == data.from_hour * 60 + data.from_minute
        to_minutes == data.to_hour * 60 + data.to_minute
        total_minutes == to_minutes - from_minutes
    IN  IF RangeRejected(total_minutes)
        THEN [done |-> TRUE,
              resp |-> Failure("submit", 400,
                          "La hora de fin debe ser despues de la hora de inicio", 0, 0),
              row |-> <<>>]
        ELSE [done |-> FALSE, resp |-> NoResponse, row |-> MakeRow(data, total_minutes)]

\* the try block of submit_overtime
submit_try(data, exists, rows, fail) ==
    LET checked == Validate(data)
    IN  IF checked.done
        THEN [resp |-> checked.resp, exists |-> exists, rows |-> rows, fault |-> FALSE]
        ELSE
        LET row == checked.row
            got == get_spreadsheet(exists, rows, fail)
        IN  IF got.ret = "raise"
            THEN [resp |-> Raised("submit", 1, 0),
                  exists |-> got.exists, rows |-> got.rows, fault |-> TRUE]
            ELSE IF got.ret = "none"
            THEN [resp |-> Failure("submit", 500,
                              "Error al conectar con Google Sheets", 1, 0),
                  exists |-> got.exists, rows |-> got.rows, fault |-> TRUE]
            ELSE IF fail = "append"
            THEN [resp |-> Raised("submit", 1, 1),
                  exists |-> got.exists, rows |-> got.rows, fault |-> TRUE]
            ELSE [resp |-> Saved(data.agent, row[9], 1, 1),
                  exists |-> got.exists, rows |-> append_row(got.rows, row),
                  fault |-> FALSE]

\* mutant of Caught: no except clause
Uncaught(r, message) == r

\* except Exception as e: return jsonify({'success': False, 'message': ...}), 500
Caught(r, message) ==
    IF r.message = "raised" THEN [r EXCEPT !.status = 500, !.message = message] ELSE r

\* submit_overtime(): the try block and its handler
submit_overtime(data, exists, rows, fail) ==
    LET out == submit_try(data, exists, rows, fail)
    IN  [out EXCEPT !.resp = Caught(out.resp, "Error al guardar")]

----------------------------------------------------------------------------
(* /get_totals *)

\* mutant of Matches: the names are compared without regard to case
LowerText(s) == [i \in 1..Len(s) |-> IF s[i] = "A" THEN "a" ELSE s[i]]
MatchesIgnoringCase(record, agent) ==
    LowerText(Get(record, KeyAgentName, None)) = LowerText(agent)

\* filtered = [r for r in records if r.get('Agent Name') == agent]
Matches(record, agent) == Get(record, KeyAgentName, None) = agent

Filtered(records, agent) == SelectSeq(records, LAMBDA r : Matches(r, agent))

\* the entry rows.append(...) adds for one record
Summary(record) ==
    [Date |-> Get(record, KeyDate, Empty),
     From |-> Get(record, KeyFrom, Empty),
     To |-> Get(record, KeyTo, Empty),
     Hours |-> Get(record, KeyTotalTime, DefaultTotalTime),
     Reason |-> Get(record, KeyReason, Empty),
     Bonus |-> Get(record, KeyBonus, Empty),
     Holiday |-> Get(record, KeyHoliday, Empty),
     Overnight |-> Get(record, KeyOvernight, Empty)]

\* the for loop of get_totals over the first k filtered records: the running
\* total and rows, or raised once a record's duration does not parse
RECURSIVE Accumulate(_, _)
Accumulate(filtered, k) ==
    IF k = 0 THEN [raised |-> FALSE, total_minutes |-> 0, rows |-> <<>>]
    ELSE LET before == Accumulate(filtered, k - 1)
             record == filtered[k]
             one == ParseDuration(Get(record, KeyTotalTime, DefaultTotalTime))
         IN  IF before.raised \/ one.raised
             THEN [raised |-> TRUE, total_minutes |-> 0, rows |-> <<>>]
             ELSE [raised |-> FALSE,
                   total_minutes |-> before.total_minutes + one.minutes,
                   rows |-> Append(before.rows, Summary(record))]

\* what get_totals answers from the records it read
Aggregate(records, agent) ==
    LET filtered == Filtered(records, agent)
        acc == Accumulate(filtered, Len(filtered))
    IN  IF acc.raised THEN Raised("get_totals", 1, 0)
        ELSE Totals(acc.total_minutes \div 60, acc.total_minutes % 60, acc.rows)

\* the try block of get_totals.  strict: the installed gspread refuses a
\* header row with repeated cells (newer releases do, older ones do not).
get_totals_try(agent, exists, rows, fail, strict) ==
    LET got == get_spreadsheet(exists, rows, fail)
    IN  IF got.ret = "raise"
        THEN [resp |-> Raised("get_totals", 1, 0),
              exists |-> got.exists, rows |-> got.rows, fault |-> TRUE]
        ELSE IF got.ret = "none"
        THEN [resp |-> Failure("get_totals", 500,
                          "Error al conectar con Google Sheets", 1, 0),
              exists |-> got.exists, rows |-> got.rows, fault |-> TRUE]
        ELSE IF fail = "read"
        THEN [resp |-> Raised("get_totals", 1, 0),
              exists |-> got.exists, rows |-> got.rows, fault |-> TRUE]
        ELSE IF strict /\ got.rows # <<>> /\ HasDuplicates(got.rows[1])
        THEN [resp |-> Raised("get_totals", 1, 0),
              exists |-> got.exists, rows |-> got.rows, fault |-> FALSE]
        ELSE [resp |-> Aggregate(get_all_records(got.rows), agent),
              exists |-> got.exists, rows |-> got.rows, fault |-> FALSE]

\* get_totals(): the try block and its handler
get_totals(agent, exists, rows, fail, strict) ==
    LET out == get_totals_try(agent, exists, rows, fail, strict)
    IN  [out EXCEPT !.resp = Caught(out.resp, "Error")]


----------------------------------------------------------------------------
(* Requests served one at a time *)

RaceIdle ==
    /\ spc = "idle" /\ sdata = Entry({}, Ana, <<9, 0>>, <<9, 0>>, FALSE, TRUE)
    /\ srow = <<>> /\ sresp = NoResponse
    /\ qpc = "idle" /\ qagent = None /\ qresp = NoResponse /\ qrecords = <<>>
    /\ sheet0 = <<>>

FmtIdle == n = 0 /\ text = <<>> /\ parsed = 0 /\ phase = "idle"

\* the spreadsheet before the first request: the worksheet is absent, or it
\* holds its header row and nothing else
Init ==
    /\ wsExists \in BOOLEAN
    /\ sheet = IF wsExists THEN <<HEADERS>> ELSE <<>>
    /\ resp = NoResponse
    /\ ledger = <<>>
    /\ storeFault = FALSE
    /\ RaceIdle
    /\ FmtIdle

\* POST /submit with body data, the store call fail (if any) failing
SubmitStep(data, fail) ==
    \E out \in {submit_overtime(data, wsExists, sheet, fail)} :
        LET minutes == (data.to_hour * 60 + data.to_minute)
                         - (data.from_hour * 60 + data.from_minute)
        IN  /\ Len(ledger) + (IF out.resp.success THEN 1 ELSE 0) <= MaxRows
            /\ wsExists' = out.exists
            /\ sheet' = out.rows
            /\ resp' = out.resp
            /\ ledger' = IF out.resp.success
                         THEN Append(ledger, <<data.agent, minutes>>)
                         ELSE ledger
            /\ storeFault' = (storeFault \/ out.fault)
            /\ UNCHANGED <<raceVars, fmtVars>>

\* A store call can fail only in a request that reaches the store.
SubmitEntry ==
    \E data \in SubmitInputs :
      \E calm \in {submit_overtime(data, wsExists, sheet, "none")} :
        \E fail \in (IF calm.resp.opens = 0 THEN {"none"} ELSE SubmitFailures) :
            SubmitStep(data, fail)

\* POST /get_totals for agent
GetTotalsStep(agent, fail, strict) ==
    \E out \in {get_totals(agent, wsExists, sheet, fail, strict)} :
        /\ wsExists' = out.exists
        /\ sheet' = out.rows
        /\ resp' = out.resp
        /\ storeFault' = (storeFault \/ out.fault)
        /\ UNCHANGED <<ledger, raceVars, fmtVars>>

\* Which gspread is installed shows only on a worksheet whose first row
\* repeats a cell.
GetTotals ==
    \E agent \in QueryAgents, fail \in QueryFailures :
      \E strict \in (IF sheet # <<>> /\ HasDuplicates(sheet[1]) THEN BOOLEAN ELSE {FALSE}) :
            GetTotalsStep(agent, fail, strict)

Next == SubmitEntry \/ GetTotals

Spec == Init /\ [][Next]_vars

----------------------------------------------------------------------------
(* Aggregation over a worksheet filled in by others *)

\* Total Time cells found in a worksheet, each with the minutes it stands for
\* when it has the form "Xh Ym" or "Xh" (wellFormed)
StoredDurations ==
    { [text |-> <<"3", "h", " ", "3", "0", "m">>, wellFormed |-> TRUE, minutes |-> 210],
      [text |-> <<"1", "h", " ", "4", "5", "m">>, wellFormed |-> TRUE, minutes |-> 105],
      [text |-> <<"2", "h">>, wellFormed |-> TRUE, minutes |-> 120],
      [text |-> <<>>, wellFormed |-> FALSE, minutes |-> 0],
      [text |-> <<"1", "h", " ", "2", "m", " ", "3">>, wellFormed |-> FALSE, minutes |-> 0],
      [text |-> <<"x", "h", " ", "5", "m">>, wellFormed |-> FALSE, minutes |-> 0] }

StoredRow(agent, total_time) ==
    <<agent, Day, <<"1", "8", ":", "3", "0">>, <<"2", "1", ":", "0", "0">>, DefaultReason, No, No, No, total_time>>

\* rows of one agent with every duration, and two rows of an agent whose name
\* differs from it in case only
StoredRows ==
    {StoredRow(Ana, d.text) : d \in StoredDurations}
    \cup {StoredRow(AnaLower, <<"2", "h">>), StoredRow(AnaLower, <<"x", "h", " ", "5", "m">>)}

StoredSheets ==
    UNION {{<<HEADERS>> \o rows : rows \in [1..k -> StoredRows]} : k \in 0..MaxStored}

InitAgg ==
    /\ wsExists = TRUE
    /\ sheet \in StoredSheets
    /\ resp = NoResponse
    /\ ledger = <<>>
    /\ storeFault = FALSE
    /\ RaceIdle
    /\ FmtIdle

\* POST /get_totals for agent, with the store answering
QueryStep(agent) ==
    \E out \in {get_totals(agent, wsExists, sheet, "none", FALSE)} :
        /\ resp' = out.resp
        /\ wsExists' = out.exists
        /\ sheet' = out.rows
        /\ UNCHANGED <<ledger, storeFault, raceVars, fmtVars>>

Query == \E agent \in QueryAgents : QueryStep(agent)

NextAgg == Query

SpecAgg == InitAgg /\ [][NextAgg]_vars

----------------------------------------------------------------------------
(* A minute count formatted by /submit and parsed by /get_totals *)

StoreIdle ==
    /\ wsExists = FALSE /\ sheet = <<>> /\ resp = NoResponse
    /\ ledger = <<>> /\ storeFault = FALSE

InitFmt ==
    /\ n \in 0..MaxMinutes
    /\ text = <<>>
    /\ parsed = 0
    /\ phase = "input"
    /\ StoreIdle
    /\ RaceIdle

\* total_time = f"{hours}h {minutes}m"
Format ==
    /\ phase = "input"
    /\ text' = FormatDuration(n)
    /\ phase' = "formatted"
    /\ UNCHANGED <<n, parsed, storeVars, raceVars>>

\* the loop body of get_totals on that text
Parse ==
    /\ phase = "formatted"
    /\ parsed' = ParseDuration(text)
    /\ phase' = "parsed"
    /\ UNCHANGED <<n, text, storeVars, raceVars>>

NextFmt == Format \/ Parse

SpecFmt == InitFmt /\ [][NextFmt]_vars


----------------------------------------------------------------------------
(* One /submit and one /get_totals in flight together.  Each store call is one
   step; the store answers every call, and refuses add_worksheet for a title
   that exists. *)

RaceEntries ==
    {Entry(Required, a, <<18, 30>>, t, FALSE, TRUE) :
        a \in {Ana, Carlos}, t \in {<<9, 0>>, <<21, 0>>}}

RaceSheets ==
    {<<>>, <<HEADERS>>}
    \cup {<<HEADERS, MakeRow(Entry(Required, a, <<9, 0>>, <<18, 30>>, FALSE, TRUE), 570)>> :
              a \in {Ana, Carlos}}

InitRace ==
    /\ sheet \in RaceSheets
    /\ wsExists = (sheet # <<>>)
    /\ sheet0 = sheet
    /\ resp = NoResponse /\ ledger = <<>> /\ storeFault = FALSE
    /\ sdata \in RaceEntries
    /\ spc = "start" /\ srow = <<>> /\ sresp = NoResponse
    /\ qagent \in {Ana, Carlos}
    /\ qpc = "open" /\ qresp = NoResponse /\ qrecords = <<>>
    /\ FmtIdle

sRest == <<resp, ledger, storeFault, sdata, qpc, qagent, qresp, qrecords, sheet0, fmtVars>>
qRest == <<resp, ledger, storeFault, spc, sdata, srow, sresp, qagent, sheet0, fmtVars>>

\* /submit: request.json to the prepared row
SValidate ==
    /\ spc = "start"
    /\ \E checked \in {Validate(sdata)} :
          IF checked.done
          THEN /\ sresp' = Caught(checked.resp, "Error al guardar")
               /\ spc' = "done"
               /\ srow' = srow
          ELSE /\ srow' = checked.row
               /\ spc' = "open"
               /\ sresp' = sresp
    /\ UNCHANGED <<wsExists, sheet, sRest>>

\* /submit: get_spreadsheet looks the worksheet up
SOpen ==
    /\ spc = "open"
    /\ spc' = IF wsExists THEN "append" ELSE "add"
    /\ UNCHANGED <<wsExists, sheet, srow, sresp, sRest>>

\* /submit: spreadsheet.add_worksheet(title=SHEET_NAME, ...)
SAdd ==
    /\ spc = "add"
    /\ IF wsExists
       THEN /\ sresp' = Caught(Raised("submit", 1, 0), "Error al guardar")
            /\ spc' = "done"
            /\ UNCHANGED <<wsExists, sheet>>
       ELSE /\ wsExists' = TRUE
            /\ sheet' = <<>>
            /\ spc' = "headers"
            /\ sresp' = sresp
    /\ UNCHANGED <<srow, sRest>>

\* /submit: worksheet.append_row(headers)
SHeaders ==
    /\ spc = "headers"
    /\ sheet' = append_row(sheet, HEADERS)
    /\ spc' = "append"
    /\ UNCHANGED <<wsExists, srow, sresp, sRest>>

\* /submit: sheet.append_row(row) and the answer
SAppend ==
    /\ spc = "append"
    /\ sheet' = append_row(sheet, srow)
    /\ sresp' = Saved(sdata.agent, srow[9], 1, 1)
    /\ spc' = "done"
    /\ UNCHANGED <<wsExists, srow, sRest>>

\* /get_totals: get_spreadsheet looks the worksheet up
QOpen ==
    /\ qpc = "open"
    /\ qpc' = IF wsExists THEN "read" ELSE "add"
    /\ UNCHANGED <<wsExists, sheet, qresp, qrecords, qRest>>

\* /get_totals: spreadsheet.add_worksheet(title=SHEET_NAME, ...)
QAdd ==
    /\ qpc = "add"
    /\ IF wsExists
       THEN /\ qresp' = Caught(Raised("get_totals", 1, 0), "Error")
            /\ qpc' = "done"
            /\ UNCHANGED <<wsExists, sheet>>
       ELSE /\ wsExists' = TRUE
            /\ sheet' = <<>>
            /\ qpc' = "headers"
            /\ qresp' = qresp
    /\ UNCHANGED <<qrecords, qRest>>

\* /get_totals: worksheet.append_row(headers)
QHeaders ==
    /\ qpc = "headers"
    /\ sheet' = append_row(sheet, HEADERS)
    /\ qpc' = "read"
    /\ UNCHANGED <<wsExists, qresp, qrecords, qRest>>

\* /get_totals: records = sheet.get_all_records()
QRead ==
    /\ qpc = "read"
    /\ \E strict \in (IF sheet # <<>> /\ HasDuplicates(sheet[1]) THEN BOOLEAN ELSE {FALSE}) :
          IF strict
          THEN /\ qresp' = Caught(Raised("get_totals", 1, 0), "Error")
               /\ qrecords' = qrecords
               /\ qpc' = "done"
          ELSE /\ qrecords' = get_all_records(sheet)
               /\ qresp' = qresp
               /\ qpc' = "loop"
    /\ UNCHANGED <<wsExists, sheet, qRest>>

\* /get_totals: the filter and the loop over the records read, and the answer
QAnswer ==
    /\ qpc = "loop"
    /\ qresp' = Caught(Aggregate(qrecords, qagent), "Error")
    /\ qpc' = "done"
    /\ UNCHANGED <<wsExists, sheet, qrecords, qRest>>

SubmitRequest == SValidate \/ SOpen \/ SAdd \/ SHeaders \/ SAppend
QueryRequest == QOpen \/ QAdd \/ QHeaders \/ QRead \/ QAnswer
\* the steps of /get_totals that call the store
QueryStoreCall == QOpen \/ QAdd \/ QHeaders \/ QRead

NextRace == SubmitRequest \/ QueryRequest

SpecRace == InitRace /\ [][NextRace]_vars

----------------------------------------------------------------------------
(* Properties of requests served one at a time *)

\* the rows of entries: every row but the header row
DataRows(rows) == SelectSeq(rows, LAMBDA row : row # HEADERS)

IsPrefix(s, t) == Len(s) <= Len(t) /\ SubSeq(t, 1, Len(s)) = s

\* the minutes since midnight a stored "HH:MM" cell reads as
ClockMinutes(cell) ==
    DigitsValue(SubSeq(cell, 1, 2)) * 60 + DigitsValue(SubSeq(cell, 4, 5))

\* s is the decimal numeral of v, without sign or leading zeros
IsDecimalOf(s, v) ==
    /\ s # <<>>
    /\ \A i \in 1..Len(s) : IsDigit(s[i])
    /\ Len(s) = 1 \/ s[1] # "0"
    /\ DigitsValue(s) = v

\* s is the two-digit, zero-padded numeral of v
IsTwoDigitsOf(s, v) ==
    /\ Len(s) = 2
    /\ IsDigit(s[1]) /\ IsDigit(s[2])
    /\ DigitsValue(s) = v

\* cell is "HH:MM" for hour and minute
IsClockOf(cell, hour, minute) ==
    /\ Len(cell) = 5
    /\ IsTwoDigitsOf(SubSeq(cell, 1, 2), hour)
    /\ cell[3] = ":"
    /\ IsTwoDigitsOf(SubSeq(cell, 4, 5), minute)

\* cell is "{d // 60}h {d % 60}m"
IsTotalOf(cell, d) ==
    \E k \in 1..Len(cell) :
        /\ IsDecimalOf(SubSeq(cell, 1, k), d \div 60)
        /\ SubSeq(cell, k + 1, k + 2) = <<"h", " ">>
        /\ IsDecimalOf(SubSeq(cell, k + 3, Len(cell) - 1), d % 60)
        /\ cell[Len(cell)] = "m"

FromMinutes(data) == data.from_hour * 60 + data.from_minute
ToMinutes(data) == data.to_hour * 60 + data.to_minute
Complete(data) == Required \subseteq data.keys
\* 'La hora de fin debe ser después de la hora de inicio', in ASCII
InvalidRangeMessage == "La hora de fin debe ser despues de la hora de inicio"

\* C1, first half: every stored entry row spans a strictly positive time, its
\* To cell reading later than its From cell.
C1_StoredPositive ==
    \A i \in 1..Len(sheet) :
        sheet[i] # HEADERS => ClockMinutes(sheet[i][4]) - ClockMinutes(sheet[i][3]) > 0

\* the complete bodies whose end is not after their start
InvalidRangeInputs ==
    {data \in SubmitInputs :
        Complete(data) /\ data.numeric /\ ToMinutes(data) <= FromMinutes(data)}

\* the complete bodies whose end is after their start
ValidInputs ==
    {data \in SubmitInputs :
        Complete(data) /\ data.numeric /\ ToMinutes(data) > FromMinutes(data)}

\* the bodies that lack a required key
IncompleteInputs == {data \in SubmitInputs : ~Complete(data)}

\* C1, second half: in every state the store reaches, a complete /submit whose
\* end is not after its start is answered with the invalid-range failure and
\* leaves the worksheet as it was, whatever its overnight flag and whatever
\* the store would do.
C1_Rejects ==
    \A data \in InvalidRangeInputs, fail \in SubmitFailures :
        \A out \in {submit_overtime(data, wsExists, sheet, fail)} :
           /\ out.resp.success = FALSE
           /\ out.resp.status = 400
           /\ out.resp.message = InvalidRangeMessage
           /\ out.resp.appends = 0
           /\ out.rows = sheet
           /\ out.exists = wsExists

\* C1: no entry row of non-positive duration is ever stored, and a /submit with
\* to_minutes <= from_minutes fails with InvalidRange and appends nothing,
\* regardless of the overnight flag.
C1_PositiveDurations == C1_StoredPositive /\ C1_Rejects

\* an invalid range was just refused while entries are already stored
C1_Witness ==
    /\ resp.op = "submit"
    /\ resp.message = InvalidRangeMessage
    /\ Len(DataRows(sheet)) = MaxRows

\* C2: a complete /submit with to_minutes > from_minutes that reaches the
\* store appends a row whose Total Time is "{d//60}h {d%60}m" for
\* d = to_minutes - from_minutes and whose From and To are the zero-padded
\* "HH:MM" of the submitted start and end.
C2_StoredRow ==
    \A data \in ValidInputs :
        \A out \in {submit_overtime(data, wsExists, sheet, "none")} :
           /\ out.resp.success
           /\ Len(out.rows) = (IF wsExists THEN Len(sheet) ELSE 1) + 1
           /\ LET row == out.rows[Len(out.rows)]
              IN  /\ Len(row) = 9
                  /\ row[1] = data.agent
                  /\ row[2] = data.date
                  /\ IsClockOf(row[3], data.from_hour, data.from_minute)
                  /\ IsClockOf(row[4], data.to_hour, data.to_minute)
                  /\ IsTotalOf(row[9], ToMinutes(data) - FromMinutes(data))
                  /\ out.resp.total_time = row[9]

\* 18:30 to 21:00 was just stored as "18:30", "21:00", "2h 30m"
C2_Witness ==
    /\ resp.op = "submit" /\ resp.success
    /\ Len(sheet) >= 2
    /\ sheet[Len(sheet)][3] = <<"1", "8", ":", "3", "0">>
    /\ sheet[Len(sheet)][4] = <<"2", "1", ":", "0", "0">>
    /\ sheet[Len(sheet)][9] = <<"2", "h", " ", "3", "0", "m">>

\* C3: a /submit body that lacks any of agent, date, from_hour, from_minute,
\* to_hour, to_minute is answered 'Datos incompletos' whatever its other
\* fields hold, without a call of get_spreadsheet, and the worksheet is
\* neither created nor appended to.
C3_Incomplete ==
    \A data \in IncompleteInputs, fail \in SubmitFailures :
        \A out \in {submit_overtime(data, wsExists, sheet, fail)} :
           /\ out.resp.success = FALSE
           /\ out.resp.status = 400
           /\ out.resp.message = "Datos incompletos"
           /\ out.resp.opens = 0
           /\ out.resp.appends = 0
           /\ out.rows = sheet
           /\ out.exists = wsExists
           /\ out.fault = FALSE

\* an incomplete body was just refused and the absent worksheet stayed absent
C3_Witness ==
    /\ resp.op = "submit"
    /\ resp.message = "Datos incompletos"
    /\ ~wsExists

\* a step that ends in a failed /submit keeps the stored entry rows
C6_FailedSubmitStep ==
    (resp'.op = "submit" /\ ~resp'.success) => DataRows(sheet') = DataRows(sheet)

\* every answer of /submit is a status and a message, reached with at most
\* one call of sheet.append_row(row)
C6_Structured ==
    resp.op = "submit" =>
        /\ resp.status \in {200, 400, 500}
        /\ resp.message \notin {"", "raised"}
        /\ resp.success <=> resp.status = 200
        /\ resp.appends <= 1
        /\ resp.success => resp.appends = 1

\* C6: a /submit answered success false leaves the stored entry rows as they
\* were; every answer of /submit is a structured result with a status and a
\* message, never an exception that leaves the handler; and
\* sheet.append_row(row) is called at most once per request.
C6_FailureAtomic == []C6_Structured /\ [][C6_FailedSubmitStep]_vars

\* a /submit whose append_row raised was answered with a failure
C6_Witness ==
    /\ resp.op = "submit" /\ ~resp.success
    /\ resp.status = 500 /\ resp.appends = 1
    /\ Len(DataRows(sheet)) >= 1

\* what one step may do to the worksheet
C7_AppendOnlyStep ==
    /\ IsPrefix(sheet, sheet')
    /\ IsPrefix(DataRows(sheet), DataRows(sheet'))
    /\ (resp'.op = "submit" /\ resp'.success)
          => /\ Len(sheet') >= 1
             /\ DataRows(sheet') = Append(DataRows(sheet), sheet'[Len(sheet')])
    /\ (resp'.op = "get_totals") => DataRows(sheet') = DataRows(sheet)

\* C7: the worksheet only grows at its end: every step keeps the rows it
\* found, in their order; a successful /submit adds exactly one entry row
\* after them; and /get_totals leaves the entry rows as they were.
C7_AppendOnly == [][C7_AppendOnlyStep]_vars

\* totals were just answered over a worksheet holding two entries
C7_Witness ==
    /\ resp.op = "get_totals" /\ resp.success
    /\ Len(DataRows(sheet)) = MaxRows

\* the minutes of the successful submits for agent, in submission order
LedgerOf(agent) == SelectSeq(ledger, LAMBDA e : e[1] = agent)

RECURSIVE SumSeq(_)
SumSeq(s) == IF s = <<>> THEN 0 ELSE s[1][2] + SumSeq(Tail(s))

\* C10: from an empty store and with every store call answering, /get_totals
\* for an agent succeeds, its total is the sum of to_minutes - from_minutes
\* over the successful submits for that agent, and it returns one row per such
\* submit in submission order.
C10_EndToEnd ==
    ~storeFault =>
    \A agent \in Agents, strict \in BOOLEAN :
        \A out \in {get_totals(agent, wsExists, sheet, "none", strict)} :
           /\ out.resp.success
           /\ out.resp.total_minutes \in 0..59
           /\ out.resp.total_hours * 60 + out.resp.total_minutes = SumSeq(LedgerOf(agent))
           /\ Len(out.resp.rows) = Len(LedgerOf(agent))
           /\ \A i \in 1..Len(out.resp.rows) :
                 /\ IsTotalOf(out.resp.rows[i].Hours, LedgerOf(agent)[i][2])
                 /\ ClockMinutes(out.resp.rows[i].To) - ClockMinutes(out.resp.rows[i].From)
                       = LedgerOf(agent)[i][2]

\* two entries of one agent, 9h 30m and 2h 30m, were just totalled
C10_Witness ==
    /\ resp.op = "get_totals" /\ resp.success
    /\ ~storeFault
    /\ Len(resp.rows) = 2
    /\ resp.rows[1].Hours = <<"9", "h", " ", "3", "0", "m">>
    /\ resp.rows[2].Hours = <<"2", "h", " ", "3", "0", "m">>
    /\ resp.total_hours = 12 /\ resp.total_minutes = 0


----------------------------------------------------------------------------
(* Properties of the aggregation *)

\* what is known of a Total Time cell found in the worksheet
DurationOf(cell) == CHOOSE d \in StoredDurations : d.text = cell

\* the entry rows of agent, in worksheet order
RowsOf(rows, agent) == SelectSeq(Tail(rows), LAMBDA row : row[1] = agent)

RECURSIVE MinutesOf(_)
MinutesOf(rows) ==
    IF rows = <<>> THEN 0
    ELSE (IF DurationOf(rows[1][9]).wellFormed THEN DurationOf(rows[1][9]).minutes ELSE 0)
         + MinutesOf(Tail(rows))

AllWellFormed(rows) == \A i \in 1..Len(rows) : DurationOf(rows[i][9]).wellFormed

\* the summary of an entry row that /get_totals returns for display
SummaryOfRow(row) ==
    [Date |-> row[2], From |-> row[3], To |-> row[4], Hours |-> row[9],
     Reason |-> row[5], Bonus |-> row[6], Holiday |-> row[7], Overnight |-> row[8]]

\* C4: a minute count n >= 0 formatted as "{n//60}h {n%60}m" and parsed by the
\* loop of /get_totals gives n again, without an error.
C4_RoundTrip ==
    phase = "parsed" => (~parsed.raised /\ parsed.minutes = n)

\* 2h 5m went through the round trip
C4_Witness ==
    /\ phase = "parsed"
    /\ n = 125
    /\ text = <<"2", "h", " ", "5", "m">>

\* C5: over a worksheet whose rows of the queried agent hold well-formed
\* durations, /get_totals answers total_minutes in 0..59 with
\* total_hours*60 + total_minutes the sum of the minutes of exactly the rows
\* whose Agent Name is the queried agent, character for character, and lists
\* exactly those rows in worksheet order; with no such row it answers 0, 0, [].
C5_Totals ==
    \A agent \in QueryAgents :
        LET mine == RowsOf(sheet, agent)
        IN  AllWellFormed(mine) =>
            \A out \in {get_totals(agent, wsExists, sheet, "none", FALSE)} :
               /\ out.resp.success
               /\ out.resp.total_minutes \in 0..59
               /\ out.resp.total_hours * 60 + out.resp.total_minutes = MinutesOf(mine)
               /\ out.resp.rows = [i \in 1..Len(mine) |-> SummaryOfRow(mine[i])]
               /\ mine = <<>> =>
                     /\ out.resp.total_hours = 0
                     /\ out.resp.total_minutes = 0
                     /\ out.resp.rows = <<>>
               /\ out.rows = sheet

\* "3h 30m" and "1h 45m" of one agent were just totalled to 5 and 15 beside a
\* row of an agent whose name differs in case only
C5_Witness ==
    /\ resp.op = "get_totals" /\ resp.success
    /\ resp.total_hours = 5 /\ resp.total_minutes = 15
    /\ Len(resp.rows) = 2
    /\ resp.rows[1].Hours = <<"3", "h", " ", "3", "0", "m">>
    /\ resp.rows[2].Hours = <<"1", "h", " ", "4", "5", "m">>
    /\ Len(RowsOf(sheet, AnaLower)) = 1
    /\ Len(RowsOf(sheet, Ana)) = 2

\* a query over malformed rows of its agent fails, or counts none of them
C8_OnePolicyStep ==
    \A agent \in QueryAgents :
        (~AllWellFormed(RowsOf(sheet, agent)) /\ QueryStep(agent))
        => \/ ~resp'.success
           \/ /\ resp'.success
              /\ resp'.total_hours * 60 + resp'.total_minutes
                    = MinutesOf(RowsOf(sheet, agent))

\* C8: when a row of the queried agent holds a malformed duration (no token,
\* three tokens or more, or a token that is no number, once 'h' and 'm' are
\* stripped), /get_totals treats it as a parse failure under one policy: it
\* fails the whole query, or it leaves every malformed row out of the total.
C8_OnePolicy == [][C8_OnePolicyStep]_vars

\* a query over a malformed row of the agent was answered with success
C8_Witness ==
    /\ resp.op = "get_totals" /\ resp.success
    /\ \E agent \in Agents :
          /\ ~AllWellFormed(RowsOf(sheet, agent))
          /\ Len(resp.rows) = Len(RowsOf(sheet, agent))
          /\ Len(resp.rows) >= 1
          /\ resp.rows[1].Hours = RowsOf(sheet, agent)[1][9]


----------------------------------------------------------------------------
(* Properties of requests in flight together *)

\* the worksheet as /get_totals would read it had nothing else been running
RowsBefore == sheet0

\* the worksheet once the racing /submit has been served on its own
RowsAfter ==
    IF Validate(sdata).done THEN sheet0
    ELSE (IF sheet0 = <<>> THEN <<HEADERS>> ELSE sheet0) \o <<Validate(sdata).row>>

\* what /get_totals answers over a worksheet nobody else touches
TotalsOver(rows) == Caught(Aggregate(get_all_records(rows), qagent), "Error")

\* C9: a /get_totals racing one /submit answers exactly what it would answer
\* over the worksheet without the new row or over the worksheet with it, and
\* neither request ever waits for the other: whatever the other is doing,
\* the next store call of each can be made.
C9_Snapshot ==
    /\ qpc = "done" => qresp \in {TotalsOver(RowsBefore), TotalsOver(RowsAfter)}
    /\ qpc \in {"open", "add", "headers", "read"} => ENABLED QueryStoreCall
    /\ spc # "done" => ENABLED SubmitRequest

\* the racing /get_totals was answered after the racing /submit stored its row
C9_Witness ==
    /\ qpc = "done" /\ spc = "done"
    /\ sresp.success
    /\ qresp.success
    /\ Len(qresp.rows) = 2

\* the same statement for requests that find the worksheet in place
C9_SnapshotOfExistingSheet == sheet0 # <<>> => C9_Snapshot

====
